---------------------------- MODULE Spec2Model ----------------------------
(***************************************************************************)
(* The adaptive rate limiter of lib/rate-limit (rateLimit): a global       *)
(* fixed-window counter, a ban store, a per-client record store and a      *)
(* subnet tally, all three LRU caches with a time-to-live, and the check / *)
(* ban / unban operations on them.                                         *)
(*                                                                         *)
(* Time is in milliseconds.  A token is the sequence of its dot-separated  *)
(* segments ("1.2.3.4" is <<"1","2","3","4">>), so that split('.') and     *)
(* join('.') are what they are in the code.  An optional value is a        *)
(* sequence of length 0 or 1.  An undefined number option is 0 (the code   *)
(* reads numeric options with ||, which treats 0 and undefined alike).     *)
(***************************************************************************)
EXTENDS Integers, Sequences, FiniteSets, TLC

VARIABLES
    opt,          \* the options rateLimit() was constructed with
    env,          \* the inputs the callers draw from (fixed in a behaviour)
    now,          \* Date.now()
    globalState,  \* [totalRequests, windowStart]
    tokenCache,   \* LRU cache token -> ClientRecord
    bannedCache,  \* LRU cache token -> [until, violations]
    suspiciousPatterns, \* LRU cache subnet -> count
    last,         \* the last call and what it returned
    ncalls,       \* number of check calls made so far
    ghost         \* per token: history kept for stating the properties

vars == <<opt, env, now, globalState, tokenCache, bannedCache,
          suspiciousPatterns, last, ncalls, ghost>>

Min(a, b) == IF a < b THEN a ELSE b
Max(a, b) == IF a > b THEN a ELSE b
Pow2(n) == 2 ^ n
OrDefault(x, d) == IF x = 0 THEN d ELSE x
None == << >>
Some(v) == <<v>>

(***************************************************************************)
(* Program constants.                                                      *)
(***************************************************************************)
DefaultInterval == 60000
DefaultGlobalLimit == 10000
DefaultMaxViolations == 5
DefaultBanDuration == 900000
DefaultUniqueTokens == 500
BannedCacheMax == 10000
SuspiciousMax == 1000
SuspiciousTtl == 300000
MaxTimestamps == 100
ScoreCap == 100

(***************************************************************************)
(* Bounds of the model.                                                    *)
(***************************************************************************)
StartTime == 1000
HistCap == 6

(***************************************************************************)
(* The configuration read at construction (lines 99-105, 109).             *)
(***************************************************************************)
interval == OrDefault(opt.interval, DefaultInterval)
enableFingerprinting == opt.enableFingerprinting
enableExponentialBackoff == opt.enableExponentialBackoff
enableGlobalLimit == opt.enableGlobalLimit
globalLimit == OrDefault(opt.globalLimit, DefaultGlobalLimit)
maxViolations == OrDefault(opt.maxViolations, DefaultMaxViolations)
banDuration == OrDefault(opt.banDuration, DefaultBanDuration)
\* line 109 without the option
tokenCacheMaxDefault == DefaultUniqueTokens

\* line 109
tokenCacheMax == OrDefault(opt.uniqueTokenPerInterval, DefaultUniqueTokens)
\* line 110 with twice the interval
tokenCacheTtlDouble == interval * 2

\* line 110
tokenCacheTtl == interval
bannedCacheTtl == banDuration * 2

(***************************************************************************)
(* LRUCache (lru-cache, options max and ttl; no updateAgeOnGet, no         *)
(* allowStale, no autopurge).  A cache is the sequence of its entries      *)
(* [k, v, start], least recently used first.  An entry is stale when its   *)
(* age exceeds the ttl; a stale entry stays in the cache (and in its size) *)
(* until a get finds it or it is evicted.                                  *)
(***************************************************************************)
CacheIndex(c, k) ==
    IF \E i \in 1..Len(c) : c[i].k = k
    THEN CHOOSE i \in 1..Len(c) : c[i].k = k
    ELSE 0

CacheRemoveAt(c, i) == SubSeq(c, 1, i - 1) \o SubSeq(c, i + 1, Len(c))

IsStale(e, t, ttl) == t - e.start > ttl

\* get(k) of a cache built with updateAgeOnGet: the age restarts on a hit
CacheGetRefreshing(c, k, t, ttl) ==
    LET i == CacheIndex(c, k) IN
    IF i = 0 THEN [cache |-> c, val |-> None]
    ELSE IF IsStale(c[i], t, ttl)
         THEN [cache |-> CacheRemoveAt(c, i), val |-> None]
         ELSE [cache |-> Append(CacheRemoveAt(c, i), [c[i] EXCEPT !.start = t]),
               val |-> Some(c[i].v)]

\* get(k): [cache |-> the cache afterwards, val |-> None or Some(value)]
CacheGet(c, k, t, ttl) ==
    LET i == CacheIndex(c, k) IN
    IF i = 0 THEN [cache |-> c, val |-> None]
    ELSE IF IsStale(c[i], t, ttl)
         THEN [cache |-> CacheRemoveAt(c, i), val |-> None]
         ELSE [cache |-> Append(CacheRemoveAt(c, i), c[i]), val |-> Some(c[i].v)]

\* set(k, v): the entry becomes the most recently used and its age restarts;
\* a new key in a full cache evicts the least recently used entry.
CacheSet(c, k, v, t, max) ==
    LET i == CacheIndex(c, k)
        e == [k |-> k, v |-> v, start |-> t]
    IN  IF i # 0 THEN Append(CacheRemoveAt(c, i), e)
        ELSE IF Len(c) >= max THEN Append(Tail(c), e)
        ELSE Append(c, e)

CacheDelete(c, k) ==
    LET i == CacheIndex(c, k) IN IF i = 0 THEN c ELSE CacheRemoveAt(c, i)

\* the value object held by the cache is mutated in place
\* the records of all clients being one object: a write reaches every entry
CacheMutateShared(c, k, v) ==
    [i \in 1..Len(c) |-> [c[i] EXCEPT !.v = v]]

CacheMutate(c, k, v) ==
    [i \in 1..Len(c) |-> IF c[i].k = k THEN [c[i] EXCEPT !.v = v] ELSE c[i]]

CacheHas(c, k) == CacheIndex(c, k) # 0
CacheVal(c, k) == c[CacheIndex(c, k)].v

(***************************************************************************)
(* generateFingerprint (lines 34-52).  A header is undefined (or missing), *)
(* null or a string; a string is the sequence of its characters.           *)
(***************************************************************************)
Undefined == [kind |-> "undefined", chars |-> << >>]
Null == [kind |-> "null", chars |-> << >>]
Str(chars) == [kind |-> "string", chars |-> chars]

\* h || '': undefined, null and '' are falsy
OrEmpty(h) == IF h.kind = "string" /\ h.chars # << >> THEN h.chars ELSE << >>

\* Array.prototype.join
RECURSIVE Join(_, _)
Join(parts, sep) ==
    IF parts = << >> THEN << >>
    ELSE IF Len(parts) = 1 THEN parts[1]
    ELSE parts[1] \o sep \o Join(Tail(parts), sep)

\* lines 42-49 without the last component
ComponentsShort(headers) ==
    Join(<<OrEmpty(headers.userAgent), OrEmpty(headers.acceptLanguage),
           OrEmpty(headers.acceptEncoding), OrEmpty(headers.accept),
           OrEmpty(headers.connection)>>, <<"|">>)

\* lines 42-49
Components(headers) ==
    Join(<<OrEmpty(headers.userAgent), OrEmpty(headers.acceptLanguage),
           OrEmpty(headers.acceptEncoding), OrEmpty(headers.accept),
           OrEmpty(headers.connection), OrEmpty(headers.cacheControl)>>,
         <<"|">>)

\* the SHA-256 digest in hex: 64 characters that stand for the text digested,
\* two texts never having digests with the same beginning
Sha256Hex(text) == [of |-> text, length |-> 64]

\* slice(0, n) of a digest
SliceHex(digest, n) == [digest EXCEPT !.length = Min(n, digest.length)]

generateFingerprint(headers) == SliceHex(Sha256Hex(Components(headers)), 16)

(***************************************************************************)
(* calculateSuspicionScore (lines 57-96).                                  *)
(***************************************************************************)
RECURSIVE SumSeq(_)
SumSeq(s) == IF s = << >> THEN 0 ELSE Head(s) + SumSeq(Tail(s))

Abs(x) == IF x < 0 THEN -x ELSE x

LatencyScore(record, t) ==
    IF record.lastRequestTime # 0 /\ t - record.lastRequestTime < 50 THEN 20
    ELSE IF record.lastRequestTime # 0 /\ t - record.lastRequestTime < 100 THEN 10
    ELSE 0

\* lines 68-70 counting every fingerprint once there are more than 5
FingerprintScoreAll(record) ==
    IF Cardinality(record.fingerprints) > 5
    THEN 15 * Cardinality(record.fingerprints)
    ELSE 0

FingerprintScore(record) ==
    IF Cardinality(record.fingerprints) > 5
    THEN 15 * (Cardinality(record.fingerprints) - 5)
    ELSE 0

ViolationScore(record) == record.violations * 25

RecentRequests(record, t) ==
    Cardinality({i \in 1..Len(record.timestamps) : t - record.timestamps[i] < 1000})

BurstScore(record, t) ==
    IF RecentRequests(record, t) > 10 THEN (RecentRequests(record, t) - 10) * 5 ELSE 0

\* the intervals between timestamps[0 .. min(length, 10) - 1]
Intervals(ts) ==
    [i \in 1..(Min(Len(ts), 10) - 1) |-> ts[i + 1] - ts[i]]

\* variance < 100, where variance = sum((x - avg)^2) / n and avg = sum / n.
\* With d[i] = n * x[i] - sum this is sum(d[i]^2) < 100 * n^3; a |d[i]| of 271
\* or more already exceeds 100 * 9^3, which keeps the squares small.
VarianceBelow100(xs) ==
    LET n == Len(xs)
        s == SumSeq(xs)
        d == [i \in 1..n |-> n * xs[i] - s]
    IN  /\ \A i \in 1..n : Abs(d[i]) < 271
        /\ SumSeq([i \in 1..n |-> d[i] * d[i]]) < 100 * n * n * n

RegularityScore(record) ==
    IF Len(record.timestamps) >= 3
    THEN LET intervals == Intervals(record.timestamps)
         IN  IF VarianceBelow100(intervals) /\ Len(intervals) >= 5 THEN 30 ELSE 0
    ELSE 0

ClampScore(score) == Min(score, ScoreCap)

calculateSuspicionScore(record, t) ==
    ClampScore(LatencyScore(record, t) + FingerprintScore(record)
               + ViolationScore(record) + BurstScore(record, t)
               + RegularityScore(record))


(***************************************************************************)
(* check, step by step (lines 132-284).                                    *)
(***************************************************************************)
NoNumber == 0 - 1
NoReason == ""
NoFingerprint == ""

\* lines 150-153: the window is reset lazily
GlobalWindow(g, t) ==
    IF t - g.windowStart > interval
    THEN [totalRequests |-> 0, windowStart |-> t]
    ELSE g

\* line 154
GlobalCount(g, t) ==
    [GlobalWindow(g, t) EXCEPT !.totalRequests = @ + 1]

\* line 156 off by one
GlobalExceededLate(g) == g.totalRequests > globalLimit + 1

\* line 156
GlobalExceeded(g) == g.totalRequests > globalLimit

\* lines 157-165
GlobalDecision(g) ==
    [isRateLimited |-> TRUE, currentUsage |-> g.totalRequests,
     limit |-> globalLimit, remaining |-> 0, isBanned |-> FALSE,
     banExpiresIn |-> NoNumber, suspicionScore |-> 0,
     reason |-> "global_limit_exceeded"]

\* line 171 with >= for >
BanActiveAtExpiry(banRecord, t) == banRecord # None /\ banRecord[1].until >= t

\* line 171
BanActive(banRecord, t) == banRecord # None /\ banRecord[1].until > t

\* lines 172-181 with the difference of line 178 taken the other way round
BannedDecisionReversed(limit, banRecord, t) ==
    [isRateLimited |-> TRUE, currentUsage |-> limit, limit |-> limit,
     remaining |-> 0, isBanned |-> TRUE,
     banExpiresIn |-> t - banRecord[1].until, suspicionScore |-> 100,
     reason |-> "ip_banned"]

\* lines 172-181
BannedDecision(limit, banRecord, t) ==
    [isRateLimited |-> TRUE, currentUsage |-> limit, limit |-> limit,
     remaining |-> 0, isBanned |-> TRUE,
     banExpiresIn |-> banRecord[1].until - t, suspicionScore |-> 100,
     reason |-> "ip_banned"]

\* lines 187-195 with the count starting at 1
NewRecordCounted(banRecord) ==
    [count |-> 1, timestamps |-> << >>,
     violations |-> IF banRecord # None THEN banRecord[1].violations ELSE 0,
     bannedUntil |-> 0, fingerprints |-> {}, lastRequestTime |-> 0,
     suspicionScore |-> 0]

\* lines 187-195 with violations: 0
NewRecordUnseeded(banRecord) ==
    [count |-> 0, timestamps |-> << >>, violations |-> 0,
     bannedUntil |-> 0, fingerprints |-> {}, lastRequestTime |-> 0,
     suspicionScore |-> 0]

\* lines 187-195
NewRecord(banRecord) ==
    [count |-> 0, timestamps |-> << >>,
     violations |-> IF banRecord # None THEN banRecord[1].violations ELSE 0,
     bannedUntil |-> 0, fingerprints |-> {}, lastRequestTime |-> 0,
     suspicionScore |-> 0]

\* lines 200-202
TrackFingerprint(record, fp) ==
    IF enableFingerprinting /\ fp # NoFingerprint
    THEN [record EXCEPT !.fingerprints = @ \cup {fp}]
    ELSE record

\* lines 205-208 with slice(0, 100) for slice(-100)
PushTimestampOldest(record, t) ==
    LET ts == Append(record.timestamps, t) IN
    [record EXCEPT !.timestamps =
        IF Len(ts) > MaxTimestamps THEN SubSeq(ts, 1, MaxTimestamps) ELSE ts]

\* lines 205-208
PushTimestamp(record, t) ==
    LET ts == Append(record.timestamps, t) IN
    [record EXCEPT !.timestamps =
        IF Len(ts) > MaxTimestamps
        THEN SubSeq(ts, Len(ts) - MaxTimestamps + 1, Len(ts))
        ELSE ts]

\* lines 211-217 with lastRequestTime set before the score is computed
AccountStampFirst(record, t) ==
    [record EXCEPT
        !.suspicionScore =
            calculateSuspicionScore([record EXCEPT !.lastRequestTime = t], t),
        !.lastRequestTime = t,
        !.count = @ + 1]

\* lines 211-217: score, then lastRequestTime, then count
Account(record, t) ==
    [record EXCEPT !.suspicionScore = calculateSuspicionScore(record, t),
                   !.lastRequestTime = t,
                   !.count = @ + 1]

\* lines 220-225 with >= for >
SuspicionLimitInclusive(limit, score) ==
    IF score >= 50 THEN Max(5, limit \div 2)
    ELSE IF score >= 25 THEN Max(10, (limit * 3) \div 4)
    ELSE limit

\* lines 220-225
SuspicionLimit(limit, score) ==
    IF score > 50 THEN Max(5, limit \div 2)
    ELSE IF score > 25 THEN Max(10, (limit * 3) \div 4)
    ELSE limit

\* lines 228-231 halving once, whatever the number of violations
BackoffLimitFlat(effectiveLimit, violations) ==
    IF enableExponentialBackoff /\ violations > 0
    THEN Max(1, effectiveLimit \div 2)
    ELSE effectiveLimit

\* lines 228-231
BackoffLimit(effectiveLimit, violations) ==
    IF enableExponentialBackoff /\ violations > 0
    THEN Max(1, effectiveLimit \div Pow2(Min(violations, 5)))
    ELSE effectiveLimit

EffectiveLimit(limit, record) ==
    BackoffLimit(SuspicionLimit(limit, record.suspicionScore), record.violations)

\* line 233 with > for >=
IsRateLimitedAbove(count, effectiveLimit) == count > effectiveLimit

\* line 233
IsRateLimited(count, effectiveLimit) == count >= effectiveLimit

\* line 240: token.split('.').slice(0, 3).join('.')
SubnetOf(token) == SubSeq(token, 1, Min(Len(token), 3))

\* lines 246-248 without the clamp
SubnetBumpUnclamped(record, subnetCount) ==
    IF subnetCount > 10
    THEN [record EXCEPT !.suspicionScore = @ + 20]
    ELSE record

\* lines 246-248 with >= for >
SubnetBumpAtTen(record, subnetCount) ==
    IF subnetCount >= 10
    THEN [record EXCEPT !.suspicionScore = Min(100, @ + 20)]
    ELSE record

\* lines 246-248
SubnetBump(record, subnetCount) ==
    IF subnetCount > 10
    THEN [record EXCEPT !.suspicionScore = Min(100, @ + 20)]
    ELSE record

\* line 252 with > for >=
ShouldBanAbove(violations) == violations > maxViolations

\* line 252
ShouldBan(violations) == violations >= maxViolations

\* lines 253-255 with the exponent one too low
BanTimeHalved(violations) ==
    IF enableExponentialBackoff
    THEN (banDuration * Pow2(Min(violations - maxViolations, 4))) \div 2
    ELSE banDuration

\* lines 253-255 without the cap of the exponent
BanTimeUncapped(violations) ==
    IF enableExponentialBackoff
    THEN banDuration * Pow2(violations - maxViolations)
    ELSE banDuration

\* lines 253-255
BanTime(violations) ==
    IF enableExponentialBackoff
    THEN banDuration * Pow2(Min(violations - maxViolations, 4))
    ELSE banDuration

\* lines 262-271
ViolationBanDecision(record, effectiveLimit, banTime) ==
    [isRateLimited |-> TRUE, currentUsage |-> record.count,
     limit |-> effectiveLimit, remaining |-> 0, isBanned |-> TRUE,
     banExpiresIn |-> banTime, suspicionScore |-> record.suspicionScore,
     reason |-> "violation_ban"]

\* lines 275-283 with remaining not cut to 0 when the call is limited
QuotaDecisionUncut(record, effectiveLimit, isRateLimited) ==
    [isRateLimited |-> isRateLimited, currentUsage |-> record.count,
     limit |-> effectiveLimit, remaining |-> effectiveLimit - record.count,
     isBanned |-> FALSE, banExpiresIn |-> NoNumber,
     suspicionScore |-> record.suspicionScore,
     reason |-> IF isRateLimited THEN "rate_limited" ELSE NoReason]

\* lines 275-283
QuotaDecision(record, effectiveLimit, isRateLimited) ==
    [isRateLimited |-> isRateLimited, currentUsage |-> record.count,
     limit |-> effectiveLimit,
     remaining |-> IF isRateLimited THEN 0 ELSE effectiveLimit - record.count,
     isBanned |-> FALSE, banExpiresIn |-> NoNumber,
     suspicionScore |-> record.suspicionScore,
     reason |-> IF isRateLimited THEN "rate_limited" ELSE NoReason]

\* lines 148-167 with the increment after the test: a rejected call is not
\* counted
GlobalGateUncounted(g, t) ==
    IF enableGlobalLimit
    THEN [g |-> IF GlobalExceeded(GlobalCount(g, t)) THEN GlobalWindow(g, t)
                ELSE GlobalCount(g, t),
          stop |-> GlobalExceeded(GlobalCount(g, t))]
    ELSE [g |-> g, stop |-> FALSE]

\* lines 148-167: the global gate.  [g, stop]
GlobalGate(g, t) ==
    IF enableGlobalLimit
    THEN [g |-> GlobalCount(g, t), stop |-> GlobalExceeded(GlobalCount(g, t))]
    ELSE [g |-> g, stop |-> FALSE]

\* lines 236-249 with the violations written back from a value read before
\* the ban threshold was passed: the increment beyond maxViolations is lost
CountViolationLost(record, token, sp, t) ==
    LET r1 == [record EXCEPT !.violations = Min(@ + 1, Max(@, maxViolations))]
        subnet == SubnetOf(token)
    IN  IF subnet # token
        THEN LET sg == CacheGet(sp, subnet, t, SuspiciousTtl)
                 subnetCount == (IF sg.val = None THEN 0 ELSE sg.val[1]) + 1
             IN  [record |-> SubnetBump(r1, subnetCount),
                  sp |-> CacheSet(sg.cache, subnet, subnetCount, t, SuspiciousMax),
                  subnetCount |-> subnetCount]
        ELSE [record |-> r1, sp |-> sp, subnetCount |-> 0]

\* lines 236-249 with a tally above 10 taking the violations to the ban
\* threshold
CountViolationSubnetBan(record, token, sp, t) ==
    LET r1 == [record EXCEPT !.violations = @ + 1]
        subnet == SubnetOf(token)
    IN  IF subnet # token
        THEN LET sg == CacheGet(sp, subnet, t, SuspiciousTtl)
                 subnetCount == (IF sg.val = None THEN 0 ELSE sg.val[1]) + 1
                 r2 == IF subnetCount > 10
                       THEN [r1 EXCEPT !.violations = Max(@, maxViolations)]
                       ELSE r1
             IN  [record |-> SubnetBump(r2, subnetCount),
                  sp |-> CacheSet(sg.cache, subnet, subnetCount, t, SuspiciousMax),
                  subnetCount |-> subnetCount]
        ELSE [record |-> r1, sp |-> sp, subnetCount |-> 0]

\* lines 236-249: the violation is counted and the subnet tally updated.
\* [record, sp, subnetCount]
CountViolation(record, token, sp, t) ==
    LET r1 == [record EXCEPT !.violations = @ + 1]
        subnet == SubnetOf(token)
    IN  IF subnet # token
        THEN LET sg == CacheGet(sp, subnet, t, SuspiciousTtl)
                 subnetCount == (IF sg.val = None THEN 0 ELSE sg.val[1]) + 1
             IN  [record |-> SubnetBump(r1, subnetCount),
                  sp |-> CacheSet(sg.cache, subnet, subnetCount, t, SuspiciousMax),
                  subnetCount |-> subnetCount]
        ELSE [record |-> r1, sp |-> sp, subnetCount |-> 0]

\* lines 169-283: what check does once past the global gate.
\* [tc, bc, sp, ret, stage, created, vBefore, vAfter, seen, subnetCount];
\* vBefore and vAfter are the record's violations before and after the call.
ClientPipeline(limit, token, fp, tc, bc, sp, t) ==
    LET bg == CacheGet(bc, token, t, bannedCacheTtl)
        banRecord == bg.val
    IN
    IF BanActive(banRecord, t)
    THEN [tc |-> tc, bc |-> bg.cache, sp |-> sp,
          ret |-> BannedDecision(limit, banRecord, t),
          stage |-> "banned", created |-> FALSE, vBefore |-> NoNumber,
          vAfter |-> NoNumber, seen |-> banRecord, subnetCount |-> 0]
    ELSE
    LET tg == CacheGet(tc, token, t, tokenCacheTtl)
        created == tg.val = None
        r0 == IF created THEN NewRecord(banRecord) ELSE tg.val[1]
        tc1 == IF created
               THEN CacheSet(tg.cache, token, r0, t, tokenCacheMax)
               ELSE tg.cache
        r1 == Account(PushTimestamp(TrackFingerprint(r0, fp), t), t)
        effectiveLimit == EffectiveLimit(limit, r1)
        isRateLimited == IsRateLimited(r1.count, effectiveLimit)
        cv == CountViolation(r1, token, sp, t)
        r2 == IF isRateLimited THEN cv.record ELSE r1
        sp1 == IF isRateLimited THEN cv.sp ELSE sp
        ban == isRateLimited /\ ShouldBan(r2.violations)
        banTime == BanTime(r2.violations)
    IN  [tc |-> CacheMutate(tc1, token, r2),
         bc |-> IF ban
                THEN CacheSet(bg.cache, token,
                              [until |-> t + banTime, violations |-> r2.violations],
                              t, BannedCacheMax)
                ELSE bg.cache,
         sp |-> sp1,
         ret |-> IF ban THEN ViolationBanDecision(r2, effectiveLimit, banTime)
                 ELSE QuotaDecision(r2, effectiveLimit, isRateLimited),
         stage |-> "client", created |-> created, vBefore |-> r0.violations,
         vAfter |-> r2.violations, seen |-> banRecord,
         subnetCount |-> IF isRateLimited THEN cv.subnetCount ELSE 0]

\* the record is fetched or created before the global gate is consulted
GlobalStopAfterCreate(g, token, tc, bc, sp, t) ==
    [tc |-> IF CacheGet(tc, token, t, tokenCacheTtl).val = None
            THEN CacheSet(CacheGet(tc, token, t, tokenCacheTtl).cache, token,
                          NewRecord(None), t, tokenCacheMax)
            ELSE CacheGet(tc, token, t, tokenCacheTtl).cache,
     bc |-> bc, sp |-> sp, ret |-> GlobalDecision(g),
     stage |-> "global", created |-> FALSE, vBefore |-> NoNumber,
     vAfter |-> NoNumber, seen |-> None, subnetCount |-> 0]

\* lines 146-167: a call stopped at the global gate touches the counter only
GlobalStop(g, token, tc, bc, sp, t) ==
    [tc |-> tc, bc |-> bc, sp |-> sp, ret |-> GlobalDecision(g),
     stage |-> "global", created |-> FALSE, vBefore |-> NoNumber,
     vAfter |-> NoNumber, seen |-> None, subnetCount |-> 0]

\* the whole of check(limit, token, fingerprint) at time t
CheckResult(limit, token, fp, g, tc, bc, sp, t) ==
    LET gate == GlobalGate(g, t) IN
    IF gate.stop
    THEN [g |-> gate.g, out |-> GlobalStop(gate.g, token, tc, bc, sp, t)]
    ELSE [g |-> gate.g, out |-> ClientPipeline(limit, token, fp, tc, bc, sp, t)]

(***************************************************************************)
(* The state machine.                                                      *)
(***************************************************************************)
NoDecision ==
    [isRateLimited |-> FALSE, currentUsage |-> 0, limit |-> 0, remaining |-> 0,
     isBanned |-> FALSE, banExpiresIn |-> NoNumber, suspicionScore |-> 0,
     reason |-> NoReason]

\* what a call other than getStats() leaves in the place of its statistics
NoStats ==
    [globalRequests |-> NoNumber, trackedClients |-> NoNumber,
     bannedClients |-> NoNumber]

NoCall(op, token) ==
    [op |-> op, token |-> token, limit |-> 0, at |-> now, stage |-> "",
     created |-> FALSE, vBefore |-> NoNumber, vAfter |-> NoNumber,
     seen |-> None, subnetCount |-> 0, prevOp |-> "", announced |-> None,
     ret |-> NoDecision, stats |-> NoStats]

\* What is remembered of a token: the last operation on it that was not
\* stopped at the global gate; the ban last announced for it, by a check
\* (banExpiresIn) or by ban(), if no unban() came after;
\* the first HistCap calls that reached its current record; and whether
\* that record was created for a token with no ban entry and has since
\* seen nothing but checks that reached it.
NoHistory ==
    [prevOp |-> "none", announced |-> None, hist |-> << >>, clean |-> FALSE]

\* the options as the caller passes them; 0 is "not given"
DefaultOptions ==
    [uniqueTokenPerInterval |-> 0, interval |-> 0,
     enableFingerprinting |-> TRUE, enableExponentialBackoff |-> TRUE,
     enableGlobalLimit |-> TRUE, globalLimit |-> 0, maxViolations |-> 0,
     banDuration |-> 0]

\* lines 98-129: the state after rateLimit(options)
InitWith(o, e) ==
    /\ opt = o
    /\ env = e
    /\ now = StartTime
    /\ globalState = [totalRequests |-> 0, windowStart |-> StartTime]
    /\ tokenCache = << >>
    /\ bannedCache = << >>
    /\ suspiciousPatterns = << >>
    /\ last = [op |-> "new", token |-> << >>, limit |-> 0, at |-> StartTime,
               stage |-> "", created |-> FALSE, vBefore |-> NoNumber,
               vAfter |-> NoNumber, seen |-> None, subnetCount |-> 0,
               prevOp |-> "", announced |-> None, ret |-> NoDecision,
               stats |-> NoStats]
    /\ ncalls = 0
    /\ ghost = [t \in e.tokens |-> NoHistory]

\* the history of a token after a check of it
Remember(h, limit, out) ==
    [prevOp |-> IF out.stage = "global" THEN h.prevOp ELSE "check",
     announced |-> IF out.ret.reason = "violation_ban"
                   THEN Some([until |-> now + out.ret.banExpiresIn,
                              by |-> "check", violations |-> out.vAfter])
                   ELSE h.announced,
     clean |-> IF out.stage = "client" /\ out.created THEN out.seen = None
               ELSE h.clean /\ out.stage = "client",
     hist |-> IF out.stage # "client" THEN h.hist
              ELSE LET base == IF out.created THEN << >> ELSE h.hist IN
                   IF Len(base) >= HistCap THEN base
                   ELSE Append(base,
                               [limit |-> limit, at |-> now,
                                vBefore |-> out.vBefore,
                                vAfter |-> out.vAfter,
                                score |-> out.ret.suspicionScore,
                                isRateLimited |-> out.ret.isRateLimited,
                                remaining |-> out.ret.remaining])]

\* lines 132-284
Check(limit, token, fp) ==
    /\ ncalls < env.maxCalls
    /\ LET res == CheckResult(limit, token, fp, globalState, tokenCache,
                              bannedCache, suspiciousPatterns, now)
           out == res.out
       IN  /\ globalState' = res.g
           /\ tokenCache' = out.tc
           /\ bannedCache' = out.bc
           /\ suspiciousPatterns' = out.sp
           /\ last' = [op |-> "check", token |-> token, limit |-> limit,
                       at |-> now, stage |-> out.stage, created |-> out.created,
                       vBefore |-> out.vBefore, vAfter |-> out.vAfter,
                       seen |-> out.seen,
                       subnetCount |-> out.subnetCount,
                       prevOp |-> ghost[token].prevOp,
                       announced |-> ghost[token].announced, ret |-> out.ret,
                       stats |-> NoStats]
           /\ ghost' = [ghost EXCEPT ![token] = Remember(@, limit, out)]
    /\ ncalls' = ncalls + 1
    /\ UNCHANGED <<opt, env, now>>

\* lines 287-292
BanEntry(duration, t) ==
    [until |-> t + OrDefault(duration, banDuration), violations |-> maxViolations]

Ban(token, duration) ==
    /\ bannedCache' = CacheSet(bannedCache, token, BanEntry(duration, now), now,
                               BannedCacheMax)
    /\ last' = NoCall("ban", token)
    /\ ghost' = [ghost EXCEPT ![token].prevOp = "ban",
                              ![token].clean = FALSE,
                              ![token].announced =
                                  Some([until |-> BanEntry(duration, now).until,
                                        by |-> "ban",
                                        violations |-> maxViolations])]
    /\ UNCHANGED <<opt, env, now, globalState, tokenCache, suspiciousPatterns, ncalls>>

\* unban that deletes nothing
UnbannedNot(bc, token) == bc

\* lines 295-297
Unbanned(bc, token) == CacheDelete(bc, token)

Unban(token) ==
    /\ bannedCache' = Unbanned(bannedCache, token)
    /\ last' = NoCall("unban", token)
    /\ ghost' = [ghost EXCEPT ![token].prevOp = "unban",
                              ![token].clean = FALSE,
                              ![token].announced = None]
    /\ UNCHANGED <<opt, env, now, globalState, tokenCache, suspiciousPatterns, ncalls>>

\* lines 300-304 with the two sizes swapped
StatsSwapped(g, tc, bc) ==
    [globalRequests |-> g.totalRequests, trackedClients |-> Len(bc),
     bannedClients |-> Len(tc)]

\* lines 300-304: size counts the entries held, stale ones included
Stats(g, tc, bc) ==
    [globalRequests |-> g.totalRequests, trackedClients |-> Len(tc),
     bannedClients |-> Len(bc)]

GetStats ==
    /\ last' = [NoCall("getStats", << >>) EXCEPT
                   !.stats = Stats(globalState, tokenCache, bannedCache)]
    /\ UNCHANGED <<opt, env, now, globalState, tokenCache, bannedCache,
                   suspiciousPatterns, ncalls, ghost>>

\* the clock of Date.now() (line 146) moves on between calls
Tick(d) ==
    /\ now + d <= env.maxTime
    /\ now' = now + d
    /\ UNCHANGED <<opt, env, globalState, tokenCache, bannedCache,
                   suspiciousPatterns, last, ncalls, ghost>>

Next ==
    \/ \E limit \in env.limits, token \in env.tokens, fp \in env.fps :
          Check(limit, token, fp)
    \/ \E token \in env.banTokens, duration \in env.durations :
          Ban(token, duration)
    \/ \E token \in env.banTokens : Unban(token)
    \/ GetStats
    \/ \E d \in env.deltas : Tick(d)

(***************************************************************************)
(* Specifications.  Each fixes the options of the limiter and the inputs   *)
(* its callers draw from.                                                  *)
(***************************************************************************)
BurstCalls == 9
BurstSpan == 100

IPv4Token == <<"1", "2", "3", "4">>
OtherToken == <<"localhost">>

\* default options, one IPv4 client sending bursts of check(5, token)
BurstEnv ==
    [tokens |-> {IPv4Token}, banTokens |-> {IPv4Token}, limits |-> {5},
     fps |-> {NoFingerprint},
     durations |-> {0}, deltas |-> {50},
     maxCalls |-> BurstCalls, maxTime |-> StartTime + BurstSpan]

Init == InitWith(DefaultOptions, BurstEnv)

Spec == Init /\ [][Next]_vars

BanCalls == 4
BanSpan == 600

\* a limiter with a short window, a short ban and a low ban threshold, so
\* that records and bans expire within a run; the ban cache's ttl is
\* 2 * banDuration = 400
BanOptions ==
    [uniqueTokenPerInterval |-> 0, interval |-> 400,
     enableFingerprinting |-> TRUE, enableExponentialBackoff |-> TRUE,
     enableGlobalLimit |-> FALSE, globalLimit |-> 0, maxViolations |-> 2,
     banDuration |-> 200]

BanEnv ==
    [tokens |-> {IPv4Token}, banTokens |-> {IPv4Token}, limits |-> {1, 3},
     fps |-> {NoFingerprint}, durations |-> {0, 1000}, deltas |-> {200},
     maxCalls |-> BanCalls, maxTime |-> StartTime + BanSpan]

InitBan == InitWith(BanOptions, BanEnv)

SpecBan == InitBan /\ [][Next]_vars

GlobalCalls == 5
GlobalSpan == 500

\* the same limiter with a global limit of 3 requests per window, and a
\* second client
GlobalOptions ==
    [uniqueTokenPerInterval |-> 0, interval |-> 400,
     enableFingerprinting |-> TRUE, enableExponentialBackoff |-> TRUE,
     enableGlobalLimit |-> TRUE, globalLimit |-> 3, maxViolations |-> 2,
     banDuration |-> 200]

GlobalEnv ==
    [tokens |-> {IPv4Token, OtherToken},
     banTokens |-> {IPv4Token, OtherToken}, limits |-> {2},
     fps |-> {NoFingerprint}, durations |-> {0}, deltas |-> {500},
     maxCalls |-> GlobalCalls, maxTime |-> StartTime + GlobalSpan]

InitGlobal == InitWith(GlobalOptions, GlobalEnv)

SpecGlobal == InitGlobal /\ [][Next]_vars

SubnetCalls == 12
SubnetSpan == 100

\* one client of a /24 calling check(1, token), with a ban threshold high
\* enough for the subnet tally to pass 10
SubnetOptions ==
    [uniqueTokenPerInterval |-> 0, interval |-> 0,
     enableFingerprinting |-> TRUE, enableExponentialBackoff |-> TRUE,
     enableGlobalLimit |-> TRUE, globalLimit |-> 0, maxViolations |-> 12,
     banDuration |-> 0]

SubnetEnv ==
    [tokens |-> {IPv4Token}, banTokens |-> {IPv4Token}, limits |-> {1},
     fps |-> {NoFingerprint}, durations |-> {0}, deltas |-> {100},
     maxCalls |-> SubnetCalls, maxTime |-> StartTime + SubnetSpan]

InitSubnet == InitWith(SubnetOptions, SubnetEnv)

SpecSubnet == InitSubnet /\ [][Next]_vars

ShapeCalls == 4
ShapeSpan == 100

\* "1.2.3.4.5": five dot-separated segments, not an IPv4 address
LongToken == <<"1", "2", "3", "4", "5">>

\* a client whose token has five segments and one whose token has one, both
\* calling check(1, token), with the ban threshold of SubnetOptions so that
\* every call is a violation and none a ban
ShapeEnv ==
    [tokens |-> {LongToken, OtherToken}, banTokens |-> {OtherToken},
     limits |-> {1}, fps |-> {NoFingerprint}, durations |-> {0},
     deltas |-> {100},
     maxCalls |-> ShapeCalls, maxTime |-> StartTime + ShapeSpan]

InitShape == InitWith(SubnetOptions, ShapeEnv)

SpecShape == InitShape /\ [][Next]_vars

LifeCalls == 4
LifeSpan == 600

\* a limiter that tracks one client at most, whose records last 200 ms and
\* whose ban entries are kept 400 ms; two clients, one of which can be
\* banned for 1000 ms
LifeOptions ==
    [uniqueTokenPerInterval |-> 1, interval |-> 200,
     enableFingerprinting |-> TRUE, enableExponentialBackoff |-> TRUE,
     enableGlobalLimit |-> FALSE, globalLimit |-> 0, maxViolations |-> 2,
     banDuration |-> 200]

LifeEnv ==
    [tokens |-> {IPv4Token, OtherToken}, banTokens |-> {IPv4Token},
     limits |-> {2}, fps |-> {NoFingerprint}, durations |-> {1000},
     deltas |-> {200},
     maxCalls |-> LifeCalls, maxTime |-> StartTime + LifeSpan]

InitLife == InitWith(LifeOptions, LifeEnv)

SpecLife == InitLife /\ [][Next]_vars

TallyCalls == 14
TallySpan == 200

\* one client of a /24 calling check(1, token), with records that last
\* 100 ms: after 200 ms the client gets a new record while the tally of its
\* subnet, kept 300000 ms, goes on
TallyOptions ==
    [uniqueTokenPerInterval |-> 0, interval |-> 100,
     enableFingerprinting |-> TRUE, enableExponentialBackoff |-> TRUE,
     enableGlobalLimit |-> TRUE, globalLimit |-> 0, maxViolations |-> 12,
     banDuration |-> 0]

TallyEnv ==
    [tokens |-> {IPv4Token}, banTokens |-> {IPv4Token}, limits |-> {1},
     fps |-> {NoFingerprint}, durations |-> {0}, deltas |-> {200},
     maxCalls |-> TallyCalls, maxTime |-> StartTime + TallySpan]

InitTally == InitWith(TallyOptions, TallyEnv)

SpecTally == InitTally /\ [][Next]_vars

EvictCalls == 4
EvictSpan == 100

NeighbourToken == <<"1", "2", "3", "5">>

\* a limiter that tracks two clients at most, and three clients
EvictOptions ==
    [uniqueTokenPerInterval |-> 2, interval |-> 0,
     enableFingerprinting |-> TRUE, enableExponentialBackoff |-> TRUE,
     enableGlobalLimit |-> TRUE, globalLimit |-> 0, maxViolations |-> 0,
     banDuration |-> 0]

EvictEnv ==
    [tokens |-> {IPv4Token, NeighbourToken, OtherToken},
     banTokens |-> {OtherToken}, limits |-> {2},
     fps |-> {NoFingerprint}, durations |-> {0}, deltas |-> {100},
     maxCalls |-> EvictCalls, maxTime |-> StartTime + EvictSpan]

InitEvict == InitWith(EvictOptions, EvictEnv)

SpecEvict == InitEvict /\ [][Next]_vars

PairCalls == 3
PairSpan == 200

\* two clients of one /24, no global limit, stores far from their capacity
PairOptions ==
    [uniqueTokenPerInterval |-> 0, interval |-> 400,
     enableFingerprinting |-> TRUE, enableExponentialBackoff |-> TRUE,
     enableGlobalLimit |-> FALSE, globalLimit |-> 0, maxViolations |-> 2,
     banDuration |-> 200]

PairEnv ==
    [tokens |-> {IPv4Token, NeighbourToken}, banTokens |-> {IPv4Token},
     limits |-> {1, 3}, fps |-> {NoFingerprint}, durations |-> {0},
     deltas |-> {200},
     maxCalls |-> PairCalls, maxTime |-> StartTime + PairSpan]

InitPair == InitWith(PairOptions, PairEnv)

SpecPair == InitPair /\ [][Next]_vars

LongWarmup == 98
LongCalls == 4
LongSpan == 100
LongLimit == 1000

\* the record of a client after n calls of check(LongLimit, token) made in
\* the millisecond that follows rateLimit(options), none of them limited
LongRecord(n) ==
    Account([NewRecord(None) EXCEPT
                !.count = n - 1,
                !.timestamps = [i \in 1..n |-> StartTime],
                !.lastRequestTime = IF n > 1 THEN StartTime ELSE 0],
            StartTime)

\* the four stores after these n calls for IPv4Token
LongState(n) ==
    [g |-> [totalRequests |-> n, windowStart |-> StartTime],
     tc |-> IF n = 0 THEN << >>
            ELSE <<[k |-> IPv4Token, v |-> LongRecord(n), start |-> StartTime]>>,
     bc |-> << >>, sp |-> << >>]

\* one more of these calls
LongStep(p) ==
    LET r == CheckResult(LongLimit, IPv4Token, NoFingerprint,
                         p.g, p.tc, p.bc, p.sp, StartTime)
    IN  [g |-> r.g, tc |-> r.out.tc, bc |-> r.out.bc, sp |-> r.out.sp]

\* LongState(n) is what check makes of LongState(n - 1)
LongReachable(n) ==
    \A m \in 1..n : \A p \in {LongState(m - 1)} : LongStep(p) = LongState(m)

LongEnv ==
    [tokens |-> {IPv4Token}, banTokens |-> {IPv4Token}, limits |-> {LongLimit},
     fps |-> {NoFingerprint}, durations |-> {0}, deltas |-> {100},
     maxCalls |-> LongCalls, maxTime |-> StartTime + LongSpan]

\* a limiter with the default options that has served LongWarmup requests of
\* one client, none of them limited (LongReachable(LongWarmup) says that the
\* limiter gets there); the calls that follow take the client's record to
\* 100 timestamps and beyond
InitLong ==
    /\ opt = DefaultOptions
    /\ env = LongEnv
    /\ now = StartTime
    /\ globalState = LongState(LongWarmup).g
    /\ tokenCache = LongState(LongWarmup).tc
    /\ bannedCache = LongState(LongWarmup).bc
    /\ suspiciousPatterns = LongState(LongWarmup).sp
    /\ last = NoCall("new", << >>)
    /\ ncalls = 0
    /\ ghost = [t \in LongEnv.tokens |-> NoHistory]

SpecLong == InitLong /\ [][Next]_vars

PrintWarmup == 5
PrintCalls == 3
PrintSpan == 100

PrintNames ==
    <<"f1", "f2", "f3", "f4", "f5", "f6", "f7", "f8", "f9", "f10", "f11", "f12">>

\* the record of a client after n calls of check(LongLimit, token, fingerprint)
\* made in the millisecond that follows rateLimit(options), each with a
\* fingerprint of its own and none of them limited
PrintRecord(n) ==
    Account([NewRecord(None) EXCEPT
                !.count = n - 1,
                !.timestamps = [i \in 1..n |-> StartTime],
                !.lastRequestTime = IF n > 1 THEN StartTime ELSE 0,
                !.fingerprints = {PrintNames[i] : i \in 1..n}],
            StartTime)

\* the four stores after these n calls for IPv4Token
PrintState(n) ==
    [g |-> [totalRequests |-> n, windowStart |-> StartTime],
     tc |-> IF n = 0 THEN << >>
            ELSE <<[k |-> IPv4Token, v |-> PrintRecord(n), start |-> StartTime]>>,
     bc |-> << >>, sp |-> << >>]

\* one more of these calls
PrintStep(p, fp) ==
    LET r == CheckResult(LongLimit, IPv4Token, fp, p.g, p.tc, p.bc, p.sp, StartTime)
    IN  [g |-> r.g, tc |-> r.out.tc, bc |-> r.out.bc, sp |-> r.out.sp]

\* PrintState(n) is what check makes of PrintState(n - 1)
PrintReachable(n) ==
    \A m \in 1..n :
        \A p \in {PrintState(m - 1)} : PrintStep(p, PrintNames[m]) = PrintState(m)

PrintEnv ==
    [tokens |-> {IPv4Token}, banTokens |-> {IPv4Token}, limits |-> {LongLimit},
     fps |-> {PrintNames[i] : i \in PrintWarmup..(PrintWarmup + PrintCalls)},
     durations |-> {0}, deltas |-> {100},
     maxCalls |-> PrintCalls, maxTime |-> StartTime + PrintSpan]

\* a limiter with the default options that has served PrintWarmup checks of
\* one client with as many fingerprints, none of them limited
\* (PrintReachable(PrintWarmup) says that the limiter gets there); the calls
\* that follow bring fingerprints old and new
InitPrint ==
    /\ opt = DefaultOptions
    /\ env = PrintEnv
    /\ now = StartTime
    /\ globalState = PrintState(PrintWarmup).g
    /\ tokenCache = PrintState(PrintWarmup).tc
    /\ bannedCache = PrintState(PrintWarmup).bc
    /\ suspiciousPatterns = PrintState(PrintWarmup).sp
    /\ last = NoCall("new", << >>)
    /\ ncalls = 0
    /\ ghost = [t \in PrintEnv.tokens |-> NoHistory]

SpecPrint == InitPrint /\ [][Next]_vars

ExpiryCalls == 3
ExpirySpan == 200

\* a limiter whose records live 100 ms and whose bans last 200 ms, with the
\* default ban threshold of 5 violations
ExpiryOptions ==
    [uniqueTokenPerInterval |-> 0, interval |-> 100,
     enableFingerprinting |-> TRUE, enableExponentialBackoff |-> TRUE,
     enableGlobalLimit |-> FALSE, globalLimit |-> 0, maxViolations |-> 0,
     banDuration |-> 200]

ExpiryEnv ==
    [tokens |-> {IPv4Token}, banTokens |-> {IPv4Token}, limits |-> {2},
     fps |-> {NoFingerprint}, durations |-> {0}, deltas |-> {200},
     maxCalls |-> ExpiryCalls, maxTime |-> StartTime + ExpirySpan]

InitExpiry == InitWith(ExpiryOptions, ExpiryEnv)

SpecExpiry == InitExpiry /\ [][Next]_vars

ToggleCalls == 6
ToggleSpan == 100

\* a limiter that bans at the first violation, with exponential backoff on
\* or off
ToggleOptions(backoff) ==
    [uniqueTokenPerInterval |-> 0, interval |-> 0,
     enableFingerprinting |-> TRUE, enableExponentialBackoff |-> backoff,
     enableGlobalLimit |-> FALSE, globalLimit |-> 0, maxViolations |-> 1,
     banDuration |-> 200]

ToggleEnv ==
    [tokens |-> {IPv4Token}, banTokens |-> {IPv4Token}, limits |-> {1, 20},
     fps |-> {NoFingerprint}, durations |-> {0}, deltas |-> {100},
     maxCalls |-> ToggleCalls, maxTime |-> StartTime + ToggleSpan]

InitToggle == \E backoff \in BOOLEAN : InitWith(ToggleOptions(backoff), ToggleEnv)

SpecToggle == InitToggle /\ [][Next]_vars

BackoffLimitMax == 130
BackoffViolationsMax == 7

\* the scores on either side of the thresholds of lines 220-225, and the
\* multiples of 25 that violations alone give
BackoffScores == {0, 25, 26, 50, 51, 75, 100}

\* lines 219-231 taken alone: the nominal limit of a call and the score and
\* violations of the record it finds; a record with v violations has a score
\* of at least min(100, 25 * v)
InitBackoff ==
    /\ opt = DefaultOptions
    /\ env = BurstEnv
    /\ now = StartTime
    /\ globalState = [totalRequests |-> 0, windowStart |-> StartTime]
    /\ tokenCache = << >>
    /\ bannedCache = << >>
    /\ suspiciousPatterns = << >>
    /\ ncalls = 0
    /\ ghost = [t \in BurstEnv.tokens |-> NoHistory]
    /\ \E limit \in 1..BackoffLimitMax, score \in BackoffScores,
          violations \in 0..BackoffViolationsMax :
          /\ score >= Min(ScoreCap, 25 * violations)
          /\ last = [NoCall("input", << >>) EXCEPT
                        !.limit = limit, !.vBefore = violations,
                        !.ret.suspicionScore = score]

ApplyEffectiveLimit ==
    /\ last.op = "input"
    /\ last' = [last EXCEPT
                   !.op = "effectiveLimit",
                   !.ret.limit =
                       EffectiveLimit(last.limit,
                                      [suspicionScore |-> last.ret.suspicionScore,
                                       violations |-> last.vBefore])]
    /\ UNCHANGED <<opt, env, now, globalState, tokenCache, bannedCache,
                   suspiciousPatterns, ncalls, ghost>>

NextBackoff == ApplyEffectiveLimit

SpecBackoff == InitBackoff /\ [][NextBackoff]_vars

ScoreNow == 10000
ScoreLenMax == 12
ScoreFpMax == 7
ScoreViolationsMax == 3

ScoreFpNames == <<"f1", "f2", "f3", "f4", "f5", "f6", "f7", "f8", "f9">>

\* the record of a client after n checks, the last one age ms ago and the
\* others gap ms apart, every second one late by jitter; nf of them brought a
\* new fingerprint and v of them were over the limit.  The score stored by
\* the last check is not read before line 211 replaces it.
ScoreRecord(n, gap, jitter, age, nf, v) ==
    [count |-> n,
     timestamps |->
         [i \in 1..n |->
             ScoreNow - age - (n - i) * gap
                 - (IF (n - i) % 2 = 1 THEN jitter ELSE 0)],
     violations |-> v, bannedUntil |-> 0,
     fingerprints |-> {ScoreFpNames[i] : i \in 1..nf},
     lastRequestTime |-> IF n = 0 THEN 0 ELSE ScoreNow - age,
     suspicionScore |-> 0]

\* lines 199-214 taken alone: the record a check finds (or has just
\* created, n = 0) and the fingerprint it is called with
InitScore ==
    /\ \E fingerprinting \in BOOLEAN :
          opt = [DefaultOptions EXCEPT !.enableFingerprinting = fingerprinting]
    /\ env = BurstEnv
    /\ now = ScoreNow
    /\ globalState = [totalRequests |-> 0, windowStart |-> ScoreNow]
    /\ tokenCache = << >>
    /\ bannedCache = << >>
    /\ suspiciousPatterns = << >>
    /\ ncalls = 0
    /\ ghost = [t \in BurstEnv.tokens |-> NoHistory]
    /\ \E n \in 0..ScoreLenMax, shape \in {<<0, 0>>, <<70, 0>>, <<70, 40>>, <<200, 0>>},
          age \in {0, 60, 2000}, nf \in 0..ScoreFpMax,
          v \in 0..ScoreViolationsMax,
          fp \in {NoFingerprint, "f1", "f9"} :
          /\ nf <= n
          /\ v <= n
          /\ ~opt.enableFingerprinting => nf = 0
          /\ last = [op |-> "input", fingerprint |-> fp,
                     record |-> ScoreRecord(n, shape[1], shape[2], age, nf, v),
                     scored |-> ScoreRecord(n, shape[1], shape[2], age, nf, v)]

ApplyScore ==
    /\ last.op = "input"
    /\ last' = [last EXCEPT
                   !.op = "score",
                   !.scored =
                       Account(PushTimestamp(TrackFingerprint(last.record,
                                                              last.fingerprint),
                                             now), now)]
    /\ UNCHANGED <<opt, env, now, globalState, tokenCache, bannedCache,
                   suspiciousPatterns, ncalls, ghost>>

NextScore == ApplyScore

SpecScore == InitScore /\ [][NextScore]_vars

HeaderNames ==
    {"userAgent", "acceptLanguage", "acceptEncoding", "accept", "connection",
     "cacheControl"}

\* what a caller may put in a header
HeaderValues ==
    {Undefined, Null, Str(<< >>), Str(<<"a">>), Str(<<"b">>), Str(<<"a", "|">>)}

\* generateFingerprint taken alone: a header set whose fields are missing or
\* "a", and a second one that differs from it in at most two fields
InitFingerprint ==
    /\ opt = DefaultOptions
    /\ env = BurstEnv
    /\ now = StartTime
    /\ globalState = [totalRequests |-> 0, windowStart |-> StartTime]
    /\ tokenCache = << >>
    /\ bannedCache = << >>
    /\ suspiciousPatterns = << >>
    /\ ncalls = 0
    /\ ghost = [t \in BurstEnv.tokens |-> NoHistory]
    /\ \E first \in [HeaderNames -> {Undefined, Str(<<"a">>)}],
          f \in HeaderNames, g \in HeaderNames, v \in HeaderValues,
          w \in HeaderValues :
          last = [op |-> "headers", first |-> first,
                  second |-> [[first EXCEPT ![f] = v] EXCEPT ![g] = w],
                  ret |-> << >>]

ApplyGenerateFingerprint ==
    /\ last.op = "headers"
    /\ last' = [last EXCEPT
                   !.op = "generateFingerprint",
                   !.ret = <<generateFingerprint(last.first),
                             generateFingerprint(last.second)>>]
    /\ UNCHANGED <<opt, env, now, globalState, tokenCache, bannedCache,
                   suspiciousPatterns, ncalls, ghost>>

NextFingerprint == ApplyGenerateFingerprint

SpecFingerprint == InitFingerprint /\ [][NextFingerprint]_vars

(***************************************************************************)
(* Properties.                                                             *)
(***************************************************************************)
\* the calls of a burst: the first calls of a fresh token's record, all
\* check(limit, token), the last one less than `within` ms after the first
BurstOf(token, limit, within) ==
    LET h == ghost[token] IN
    IF /\ h.clean
       /\ h.hist # << >>
       /\ h.hist[1].vBefore = 0
       /\ \A i \in 1..Len(h.hist) :
             /\ h.hist[i].limit = limit
             /\ h.hist[i].at - h.hist[1].at < within
    THEN h.hist
    ELSE << >>

\* C2, as the specification states it: with limit 5 and default options, six
\* check(5, token) calls on a fresh IPv4 token within one second: calls 1 to 5
\* return isRateLimited = false with remaining 4, 3, 2, 1, 0; call 6 returns
\* isRateLimited = true and leaves violations at 1.
C2_AsStated ==
    LET b == BurstOf(IPv4Token, 5, 1000) IN
    \A i \in 1..Len(b) :
        /\ i <= 5 => ~b[i].isRateLimited /\ b[i].remaining = 5 - i
        /\ i = 6 => b[i].isRateLimited /\ b[i].vAfter = 1

\* C2, amended: calls 1 to 4 return isRateLimited = false with remaining
\* 4, 3, 2, 1; call 5 returns isRateLimited = true with remaining 0 and makes
\* violations 1; call 6 returns isRateLimited = true and leaves violations at 2.
C2_FifthCallLimited ==
    LET b == BurstOf(IPv4Token, 5, 1000) IN
    \A i \in 1..Len(b) :
        /\ i <= 4 => ~b[i].isRateLimited /\ b[i].remaining = 5 - i
        /\ i = 5 => b[i].isRateLimited /\ b[i].remaining = 0 /\ b[i].vAfter = 1
        /\ i = 6 => b[i].isRateLimited /\ b[i].remaining = 0 /\ b[i].vAfter = 2

C2_Witness ==
    /\ Len(BurstOf(IPv4Token, 5, 1000)) = 6
    /\ last.op = "check"
    /\ last.ret.isRateLimited

\* C4: with default options and bursts of check(5, token) on one token, the
\* call that produces the token's 5th violation returns isBanned = true with
\* banExpiresIn >= banDuration.
C4_FifthViolationBans ==
    (/\ last.op = "check"
     /\ last.limit = 5
     /\ last.stage = "client"
     /\ last.vBefore = 4
     /\ last.vAfter = 5)
    => /\ last.ret.isBanned
       /\ last.ret.banExpiresIn >= banDuration

C4_Witness ==
    /\ last.op = "check"
    /\ last.limit = 5
    /\ ghost[last.token].clean
    /\ last.vBefore = 4
    /\ last.vAfter = 5
    /\ last.ret.isBanned
    /\ last.ret.reason = "violation_ban"
    /\ last.ret.banExpiresIn = DefaultBanDuration

\* C1: for a fresh token whose suspicion score is 0 and that has no
\* violations, the calls check(limit, token) are answered isRateLimited =
\* false for the first limit - 1 of them and true for the limit-th one, with
\* remaining = limit - i on the i-th, so decreasing to 0.
C1_FreshQuota ==
    \A token \in env.tokens, limit \in env.limits :
        LET b == BurstOf(token, limit, tokenCacheTtl + 1) IN
        \A i \in 1..Len(b) :
            (\A j \in 1..i : b[j].score = 0)
            => /\ i <= limit
               /\ b[i].isRateLimited = (i = limit)
               /\ b[i].remaining = limit - i
               /\ i > 1 => b[i].remaining < b[i - 1].remaining

C1_Witness ==
    LET b == BurstOf(IPv4Token, 3, tokenCacheTtl + 1) IN
    /\ Len(b) = 3
    /\ \A j \in 1..3 : b[j].score = 0
    /\ ~b[1].isRateLimited /\ b[1].remaining = 2
    /\ ~b[2].isRateLimited /\ b[2].remaining = 1
    /\ b[3].isRateLimited /\ b[3].remaining = 0

\* C3: the rate-limiting event that brings a token's violations to
\* maxViolations installs a ban, and from then on every check of the token
\* that reaches the ban lookup before the announced banExpiresIn has elapsed
\* (no ban() or unban() of the token in between) returns isBanned = true
\* with reason 'ip_banned'.
C3_BannedAfterMaxViolations ==
    /\ (/\ last.op = "check"
        /\ last.stage = "client"
        /\ last.vBefore = maxViolations - 1
        /\ last.vAfter = maxViolations)
       => /\ last.ret.isBanned
          /\ ghost[last.token].announced =
                Some([until |-> last.at + last.ret.banExpiresIn,
                      by |-> "check", violations |-> maxViolations])
    /\ (/\ last.op = "check"
        /\ last.stage # "global"
        /\ last.announced # None
        /\ last.announced[1].by = "check"
        /\ last.announced[1].violations = maxViolations
        /\ last.at < last.announced[1].until)
       => /\ last.ret.isBanned
          /\ last.ret.reason = "ip_banned"

C3_Witness ==
    /\ last.op = "check"
    /\ last.announced # None
    /\ last.announced[1].by = "check"
    /\ last.announced[1].violations = maxViolations
    /\ last.at < last.announced[1].until
    /\ last.prevOp = "check"
    /\ last.ret.reason = "ip_banned"

\* C5: with the global limit enabled, a check made while the window is
\* active and after which totalRequests exceeds globalLimit returns
\* isRateLimited = true with reason 'global_limit_exceeded', whatever its
\* token; a check made more than interval after windowStart resets the
\* window and goes on to the per-client pipeline.
C5_GlobalLimit ==
    [][(ncalls' = ncalls + 1 /\ enableGlobalLimit)
       => /\ (/\ now - globalState.windowStart <= interval
              /\ globalState'.totalRequests > globalLimit)
             => /\ last'.ret.isRateLimited
                /\ last'.ret.reason = "global_limit_exceeded"
          /\ (now - globalState.windowStart > interval)
             => /\ globalState' = [totalRequests |-> 1, windowStart |-> now]
                /\ last'.stage # "global"]_vars

\* a token never seen before is turned away by the global limit
C5_Witness ==
    /\ last.op = "check"
    /\ last.ret.reason = "global_limit_exceeded"
    /\ ghost[last.token].prevOp = "none"
    /\ ~CacheHas(tokenCache, last.token)
    /\ globalState.totalRequests > globalLimit

\* C6: the first check of a token after unban(token) that reaches the ban
\* lookup is not answered 'ip_banned'; it goes on to the per-client quota.
C6_UnbanLifts ==
    (/\ last.op = "check"
     /\ last.prevOp = "unban"
     /\ last.stage # "global")
    => /\ last.ret.reason # "ip_banned"
       /\ last.stage = "client"
       /\ last.seen = None

\* a token banned for its violations is unbanned and checked again
C6_Witness ==
    /\ last.op = "check"
    /\ last.prevOp = "unban"
    /\ last.stage = "client"
    /\ last.vBefore >= maxViolations

\* C7, as the specification states it: after ban(token, d), or after a
\* 'violation_ban' decision announcing banExpiresIn = d, every check of the
\* token made less than d later, with no unban in between and the global
\* limit not exceeded, returns isBanned = true with reason 'ip_banned'.
C7_BanEnforced ==
    (/\ last.op = "check"
     /\ last.stage # "global"
     /\ last.announced # None
     /\ last.at < last.announced[1].until)
    => /\ last.ret.isBanned
       /\ last.ret.reason = "ip_banned"

\* C8: a check that reaches the ban lookup is answered 'ip_banned' exactly
\* when the lookup finds a BanEntry with until > now, and then with isBanned =
\* true, banExpiresIn = until - now and suspicionScore = 100; an entry found
\* with until <= now does not cause 'ip_banned'.
C8_BanLookup ==
    (last.op = "check" /\ last.stage # "global")
    => LET found == last.seen # None
           active == found /\ last.seen[1].until > last.at
       IN  /\ (last.ret.reason = "ip_banned") = active
           /\ (last.stage = "banned") = active
           /\ active => /\ last.ret.isBanned
                        /\ last.ret.isRateLimited
                        /\ last.ret.banExpiresIn = last.seen[1].until - last.at
                        /\ last.ret.suspicionScore = 100

\* an entry found past its until time
C8_Witness ==
    /\ last.op = "check"
    /\ last.seen # None
    /\ last.seen[1].until <= last.at
    /\ last.stage = "client"
    /\ last.ret.reason # "ip_banned"

\* C9: a check rejected with 'global_limit_exceeded' changes the global
\* counter and nothing else: the client records, the ban entries and the
\* subnet tally are as before.
C9_GlobalRejectFrame ==
    [][(ncalls' = ncalls + 1 /\ last'.ret.reason = "global_limit_exceeded")
       => /\ UNCHANGED <<tokenCache, bannedCache, suspiciousPatterns>>
          /\ globalState'.totalRequests = globalState.totalRequests + 1
          /\ globalState'.windowStart = globalState.windowStart]_vars

\* a rejected call of a token that has a ban entry but no record, while
\* another client has a record
C9_Witness ==
    /\ last.op = "check"
    /\ last.ret.reason = "global_limit_exceeded"
    /\ ~CacheHas(tokenCache, last.token)
    /\ CacheHas(bannedCache, last.token)
    /\ tokenCache # << >>

\* C10: the score the scorer gives any stored record, now or some time
\* later, the score stored on every record and the score of every decision
\* are within 0..100, also after the subnet bump of 20.
C10_ScoreRange ==
    /\ \A i \in 1..Len(tokenCache) :
          /\ tokenCache[i].v.suspicionScore \in 0..100
          /\ \A d \in {0, 49, 50, 99, 100, 999, 1000} :
                calculateSuspicionScore(tokenCache[i].v, now + d) \in 0..100
    /\ last.ret.suspicionScore \in 0..100

\* a decision whose score was bumped for the subnet and clamped
C10_Witness ==
    /\ last.op = "check"
    /\ last.subnetCount > 10
    /\ last.ret.suspicionScore = 100
    /\ CacheVal(tokenCache, last.token).suspicionScore = 100

\* C12: getStats() changes nothing of the limiter (the global counter, the
\* client records, the ban entries and the subnet tally are as before) and
\* returns globalRequests = the current totalRequests, trackedClients = the
\* current size of the client store and bannedClients = the current size of
\* the ban store, entries past their ttl and not yet dropped included.
C12_GetStatsFrame ==
    [][(last'.op = "getStats")
       => /\ UNCHANGED <<globalState, tokenCache, bannedCache,
                         suspiciousPatterns>>
          /\ last'.stats.globalRequests = globalState.totalRequests
          /\ last'.stats.trackedClients = Len(tokenCache)
          /\ last'.stats.bannedClients = Len(bannedCache)]_vars

\* statistics taken with requests counted, two clients tracked, one of them
\* past its ttl, and one ban entry
C12_Witness ==
    /\ last.op = "getStats"
    /\ last.stats.globalRequests > 0
    /\ last.stats.trackedClients = 2
    /\ last.stats.bannedClients = 1
    /\ \E i \in 1..Len(tokenCache) : IsStale(tokenCache[i], now, tokenCacheTtl)

\* the effective limit the same call would get from a record with one more
\* violation and the same score
C11_LimitAfterOneMore ==
    EffectiveLimit(last.limit, [suspicionScore |-> last.ret.suspicionScore,
                                violations |-> last.vBefore + 1])

\* C11, as the specification states it: with exponential backoff enabled,
\* for the same nominal limit and score, v + 1 violations give a strictly
\* smaller effective limit than v violations whenever the effective limit at
\* v is above 1.
C11_AsStated ==
    (last.op = "effectiveLimit" /\ last.ret.limit > 1)
    => C11_LimitAfterOneMore < last.ret.limit

\* C11, amended: that holds for v < 5; from 5 violations on the effective
\* limit stays what it is at 5 violations.
C11_StrictBelowFive ==
    (last.op = "effectiveLimit")
    => /\ (last.vBefore < 5 /\ last.ret.limit > 1)
             => C11_LimitAfterOneMore < last.ret.limit
       /\ last.vBefore >= 5 => C11_LimitAfterOneMore = last.ret.limit

\* the fifth violation still lowers an effective limit above 1
C11_Witness ==
    /\ last.op = "effectiveLimit"
    /\ last.vBefore = 4
    /\ last.ret.limit > 2
    /\ C11_LimitAfterOneMore > 1

\* the keys a cache holds
C13_Keys(c) == {c[i].k : i \in 1..Len(c)}

C14_LastOf(ts, n) ==
    IF Len(ts) <= n THEN ts ELSE SubSeq(ts, Len(ts) - n + 1, Len(ts))

\* C14: no record ever holds more than 100 timestamps; a check that reaches
\* the record leaves it with the last 100 of (its timestamps before, then
\* now), in that order, which is the order of time.
C14_TimestampWindow ==
    [][/\ \A i \in 1..Len(tokenCache) : Len(tokenCache[i].v.timestamps) <= 100
       /\ \A i \in 1..Len(tokenCache') : Len(tokenCache'[i].v.timestamps) <= 100
       /\ (ncalls' = ncalls + 1 /\ last'.stage = "client")
          => LET before == IF last'.created THEN << >>
                           ELSE CacheVal(tokenCache, last'.token).timestamps
                 after == CacheVal(tokenCache', last'.token).timestamps
             IN  /\ after = C14_LastOf(Append(before, now), 100)
                 /\ \A m \in 1..(Len(after) - 1) : after[m] <= after[m + 1]
      ]_vars

\* the record has served more than 100 requests and holds 100 timestamps,
\* the oldest of them older than the newest; the requests before the first
\* one of the run are requests that check served one after the other
C14_Witness ==
    /\ last.op = "check"
    /\ last.ret.currentUsage > 100
    /\ Len(CacheVal(tokenCache, last.token).timestamps) = 100
    /\ CacheVal(tokenCache, last.token).timestamps[100] = now
    /\ CacheVal(tokenCache, last.token).timestamps[1] < now
    /\ LongReachable(LongWarmup)

\* the text a header counts for: the empty string when it is missing,
\* undefined or null
C15_Text(h) == IF h.kind = "string" THEN h.chars ELSE << >>

\* the fields in which two header sets do not agree
C15_Differing(a, b) == {f \in HeaderNames : C15_Text(a[f]) # C15_Text(b[f])}

\* C15: generateFingerprint gives a string of 16 hex characters that depends
\* on the header set only; two header sets that agree field by field
\* (missing, undefined and null counting as the empty string) get the same
\* string, and two header sets that differ in exactly one field get
\* different strings, no two digests being taken to begin alike.
C15_Fingerprint ==
    (last.op = "generateFingerprint")
    => /\ last.ret[1].length = 16
       /\ last.ret[2].length = 16
       /\ C15_Differing(last.first, last.second) = {}
             => last.ret[1] = last.ret[2]
       /\ Cardinality(C15_Differing(last.first, last.second)) = 1
             => last.ret[1] # last.ret[2]

\* two header sets, one with an undefined and the other with a null
\* user agent, that differ in their cacheControl only, and their fingerprints
C15_Witness ==
    /\ last.op = "generateFingerprint"
    /\ last.first.userAgent = Undefined
    /\ last.second.userAgent = Null
    /\ last.first.cacheControl = Str(<<"a">>)
    /\ last.second.cacheControl = Str(<<"a", "|">>)
    /\ C15_Differing(last.first, last.second) = {"cacheControl"}
    /\ last.ret[1] # last.ret[2]

\* C16, as stated: the effective limit a check returns is never above the
\* nominal limit the caller passed, whatever the score and the violations of
\* the record.
C16_LimitNotRaised ==
    (last.op = "check" /\ last.stage = "client")
    => last.ret.limit <= last.limit

\* C17, as stated: a check with a nominal limit of 2 or more, of a token
\* whose ban entry has until <= now and whose record is past its ttl, is
\* admitted (isRateLimited = false, isBanned = false) and leaves the ban
\* store as it was.
C17_BanEnds ==
    [][(/\ ncalls' = ncalls + 1
        /\ last'.limit >= 2
        /\ CacheHas(bannedCache, last'.token)
        /\ CacheVal(bannedCache, last'.token).until <= now
        /\ CacheHas(tokenCache, last'.token)
        /\ IsStale(tokenCache[CacheIndex(tokenCache, last'.token)], now,
                   tokenCacheTtl))
       => /\ ~last'.ret.isRateLimited
          /\ ~last'.ret.isBanned
          /\ \A i \in 1..Len(bannedCache') : bannedCache'[i].v.until <= now
      ]_vars

\* C18, as stated: the first check of a token after unban(token) that gets
\* past the global gate returns isBanned = false and leaves the token
\* without a ban entry, whatever record the token has.
C18_UnbanForGood ==
    (/\ last.op = "check"
     /\ last.prevOp = "unban"
     /\ last.stage # "global")
    => /\ ~last.ret.isBanned
       /\ ~CacheHas(bannedCache, last.token)

\* C19, as the specification states it: on every return of check without a
\* ban, remaining = effective limit - count, also when the call is limited.
C19_AsStated ==
    (last.op = "check" /\ last.stage = "client" /\ ~last.ret.isBanned)
    => last.ret.remaining = last.ret.limit - last.ret.currentUsage

\* C19, amended: a check that reaches the record and returns without a ban
\* returns currentUsage = the record's count, limit = the effective limit
\* (from the nominal limit, the record's score and its violations before the
\* call), isRateLimited = (count >= effective limit), isBanned = false, no
\* banExpiresIn, the record's score, reason 'rate_limited' when limited and
\* none otherwise, and remaining = effective limit - count when the call is
\* admitted but 0 when it is limited.
C19_QuotaDecision ==
    (last.op = "check" /\ last.stage = "client" /\ ~last.ret.isBanned)
    => LET record == CacheVal(tokenCache, last.token)
           ret == last.ret
       IN  /\ ret.currentUsage = record.count
           /\ last.subnetCount <= 10
                 => ret.limit =
                       EffectiveLimit(last.limit,
                                      [suspicionScore |-> record.suspicionScore,
                                       violations |-> last.vBefore])
           /\ ret.isRateLimited = (ret.currentUsage >= ret.limit)
           /\ ret.remaining = IF ret.isRateLimited THEN 0
                              ELSE ret.limit - ret.currentUsage
           /\ ret.banExpiresIn = NoNumber
           /\ ret.suspicionScore = record.suspicionScore
           /\ ret.reason = IF ret.isRateLimited THEN "rate_limited" ELSE NoReason

\* a limited call that returns without a ban, its count above the effective
\* limit
C19_Witness ==
    /\ last.op = "check"
    /\ last.stage = "client"
    /\ ~last.ret.isBanned
    /\ last.ret.isRateLimited
    /\ last.ret.currentUsage > last.ret.limit
    /\ last.ret.remaining = 0

\* the intervals between the last 10 timestamps, all of them if there are no
\* more
C20_RecentIntervals(ts) ==
    LET k == Min(Len(ts), 10)
        recent == SubSeq(ts, Len(ts) - k + 1, Len(ts))
    IN  [i \in 1..(k - 1) |-> recent[i + 1] - recent[i]]

C21_EffectiveLimit ==
    [][(ncalls' = ncalls + 1 /\ last'.stage = "client")
       => LET token == last'.token
              after == CacheVal(tokenCache', token)
              count == IF last'.created THEN 1
                       ELSE CacheVal(tokenCache, token).count + 1
              v == IF last'.created THEN last'.vBefore
                   ELSE CacheVal(tokenCache, token).violations
              score == IF last'.subnetCount > 10
                       THEN after.suspicionScore - 20
                       ELSE after.suspicionScore
              base == IF score > 50 THEN Max(5, last'.limit \div 2)
                      ELSE IF score > 25 THEN Max(10, (3 * last'.limit) \div 4)
                      ELSE last'.limit
              effective == IF opt.enableExponentialBackoff /\ v > 0
                           THEN Max(1, base \div Pow2(Min(v, 5)))
                           ELSE base
          IN  /\ last'.ret.limit = effective
              /\ last'.ret.isRateLimited = (count >= effective)
              /\ last'.ret.currentUsage = count]_vars

\* a call with nominal limit 20 on a record with one violation and a score
\* between 26 and 50, backoff enabled: 15 halved
C21_Witness ==
    /\ last.op = "check"
    /\ opt.enableExponentialBackoff
    /\ last.limit = 20
    /\ last.vBefore = 1
    /\ last.ret.suspicionScore \in 26..50
    /\ last.ret.limit = 7
    /\ ~last.ret.isRateLimited

C23_SeededViolations ==
    [][(ncalls' = ncalls + 1 /\ last'.stage = "client" /\ last'.created)
       => LET token == last'.token
              held == /\ CacheHas(bannedCache, token)
                      /\ now - bannedCache[CacheIndex(bannedCache, token)].start
                            <= 2 * OrDefault(opt.banDuration, 900000)
              seed == IF held THEN CacheVal(bannedCache, token).violations
                      ELSE 0
              record == CacheVal(tokenCache', token)
              limited == last'.ret.isRateLimited
          IN  /\ record.violations = seed + (IF limited THEN 1 ELSE 0)
              /\ record.count = 1
              /\ record.timestamps = <<now>>
              /\ record.fingerprints \subseteq (env.fps \ {NoFingerprint})
              /\ Cardinality(record.fingerprints) <= 1
              /\ record.lastRequestTime = now
              /\ record.suspicionScore
                    = Min(100, Min(100, 25 * seed)
                               + (IF last'.subnetCount > 10 THEN 20 ELSE 0))
      ]_vars

\* a record created for a token whose ban entry is past its until time
C23_Witness ==
    /\ last.op = "check"
    /\ last.created
    /\ last.seen # None
    /\ last.seen[1].until < last.at
    /\ last.seen[1].violations >= maxViolations
    /\ last.vBefore = last.seen[1].violations
    /\ CacheVal(tokenCache, last.token).violations >= last.seen[1].violations

\* C24: the life of a record runs from its creation, which is the time of
\* its first timestamp, whatever checks touched it since.  A check that gets
\* past the ban lookup more than interval after the creation of the token's
\* record starts a new record (count 1, the one timestamp now); one that
\* comes no later than that finds the record and adds 1 to its count.  The
\* new record of a token that has no ban entry is served like a new client:
\* with a nominal limit of 2 or more the call is admitted.
C24_LifetimeFromCreation ==
    [][(/\ ncalls' = ncalls + 1
        /\ last'.stage = "client"
        /\ CacheHas(tokenCache, last'.token))
       => LET token == last'.token
              before == CacheVal(tokenCache, token)
              after == CacheVal(tokenCache', token)
              expired == now - before.timestamps[1] > OrDefault(opt.interval, 60000)
          IN  IF expired
              THEN /\ last'.created
                   /\ after.count = 1
                   /\ after.timestamps = <<now>>
                   /\ (~CacheHas(bannedCache, token) /\ last'.limit >= 2)
                         => /\ ~last'.ret.isRateLimited
                            /\ ~last'.ret.isBanned
                            /\ last'.ret.remaining = last'.limit - 1
              ELSE /\ ~last'.created
                   /\ after.count = before.count + 1
                   /\ after.timestamps[1] = before.timestamps[1]]_vars

\* the fourth check of a run finds the token's record expired and starts a
\* new one, and the client is admitted
C24_Witness ==
    /\ last.op = "check"
    /\ last.created
    /\ last.prevOp = "check"
    /\ ncalls = 4
    /\ last.at - StartTime > interval
    /\ last.seen = None
    /\ last.limit >= 2
    /\ ~last.ret.isRateLimited

\* C25: with the global limit enabled, every check sets totalRequests to 1
\* and windowStart to now when now - windowStart > interval, and adds 1 to
\* totalRequests otherwise, whatever it returns; no other operation changes
\* the global counter.  So totalRequests is the number of checks made since
\* windowStart: while the window of the construction lasts it is the number
\* of checks made so far, and it never exceeds that number.
C25_GlobalCounter ==
    [][/\ IF ncalls' = ncalls + 1 /\ opt.enableGlobalLimit
          THEN IF now - globalState.windowStart > OrDefault(opt.interval, 60000)
               THEN globalState' = [totalRequests |-> 1, windowStart |-> now]
               ELSE globalState' =
                        [totalRequests |-> globalState.totalRequests + 1,
                         windowStart |-> globalState.windowStart]
          ELSE globalState' = globalState
       /\ opt.enableGlobalLimit
             => /\ globalState'.totalRequests <= ncalls'
                /\ globalState'.windowStart = StartTime
                      => globalState'.totalRequests = ncalls']_vars

\* five checks in the first window, the last one rejected at the global
\* gate: all five counted
C25_Witness ==
    /\ last.op = "check"
    /\ last.ret.reason = "global_limit_exceeded"
    /\ globalState.totalRequests = 5
    /\ ncalls = 5
    /\ globalState.windowStart = StartTime

\* C26: a check of a token that does not have four dot-separated segments
\* leaves the subnet tally as it was and computes no subnet count, so it
\* never receives the +20 of the tally.
C26_NonIPv4NoSubnet ==
    [][(ncalls' = ncalls + 1 /\ Len(last'.token) # 4)
          => /\ suspiciousPatterns' = suspiciousPatterns
             /\ last'.subnetCount = 0]_vars

\* C27: in the score a check gives to a record, the latency part is 20 when
\* the gap between now and the lastRequestTime the record had before the call
\* is below 50 ms, 10 when it is at least 50 and below 100, and 0 otherwise;
\* it is 0 for a record created by the call.  The other parts are those of
\* the fingerprints, the violations before the call, the burst and the
\* regularity of the timestamps.  After the call lastRequestTime is now.
C27_LatencyPart ==
    [][(ncalls' = ncalls + 1 /\ last'.stage = "client")
       => LET token == last'.token
              after == CacheVal(tokenCache', token)
              gap == now - CacheVal(tokenCache, token).lastRequestTime
              latency == IF last'.created THEN 0
                         ELSE IF gap < 50 THEN 20
                         ELSE IF gap >= 50 /\ gap < 100 THEN 10
                         ELSE 0
              scored == [after EXCEPT !.violations = last'.vBefore]
              others == FingerprintScore(scored) + ViolationScore(scored)
                        + BurstScore(scored, now) + RegularityScore(scored)
              bump == IF last'.subnetCount > 10 THEN 20 ELSE 0
          IN  /\ after.suspicionScore
                    = Min(100, Min(100, latency + others) + bump)
              /\ after.lastRequestTime = now]_vars

\* a second check 50 ms or more after the first, on a record without
\* violations: the score is the 10 of the latency
C27_Witness ==
    /\ last.op = "check"
    /\ last.stage = "client"
    /\ ~last.created
    /\ last.vBefore = 0
    /\ last.ret.suspicionScore = 10
    /\ CacheVal(tokenCache, last.token).lastRequestTime = last.at

\* C28: a check answered 'ip_banned' leaves the client records and the subnet
\* tally as they were, and the ban store with the same entries (same token,
\* until, violations and age; only the order of use may change).  The global
\* counter is the one thing it changes, and only when the global limit is
\* enabled.
C28_BannedFrame ==
    [][(ncalls' = ncalls + 1 /\ last'.ret.reason = "ip_banned")
       => /\ tokenCache' = tokenCache
          /\ suspiciousPatterns' = suspiciousPatterns
          /\ Len(bannedCache') = Len(bannedCache)
          /\ {bannedCache'[i] : i \in 1..Len(bannedCache')}
                = {bannedCache[i] : i \in 1..Len(bannedCache)}
          /\ IF opt.enableGlobalLimit
             THEN globalState'.totalRequests
                    \in {1, globalState.totalRequests + 1}
             ELSE globalState' = globalState]_vars

\* a check refused as banned, some time after the ban was set, for a token
\* that has a client record
C28_Witness ==
    /\ last.op = "check"
    /\ last.ret.reason = "ip_banned"
    /\ CacheIndex(tokenCache, last.token) # 0
    /\ CacheIndex(bannedCache, last.token) # 0
    /\ bannedCache[CacheIndex(bannedCache, last.token)].start < last.at

\* the rate-limited calls among the first n of a history
RECURSIVE LimitedIn(_, _)
LimitedIn(hist, n) ==
    IF n = 0 THEN 0
    ELSE LimitedIn(hist, n - 1) + (IF hist[n].isRateLimited THEN 1 ELSE 0)

\* C29: check is one step of the process: whatever the order in which
\* callers check, ban, unban and read, after every step each record held
\* has as count the number of checks that reached it since it was created
\* and as violations the value it was created with plus the number of those
\* checks that were rate-limited; and a check writes at most one entry of
\* the ban store.
C29_NoLostUpdate ==
    [][/\ \A token \in env.tokens :
            (CacheIndex(tokenCache', token) # 0
                /\ Len(ghost'[token].hist) < HistCap)
            => LET record == CacheVal(tokenCache', token)
                   hist == ghost'[token].hist
               IN  /\ hist # << >>
                   /\ record.count = Len(hist)
                   /\ record.violations
                         = hist[1].vBefore + LimitedIn(hist, Len(hist))
       /\ ncalls' = ncalls + 1
             => Cardinality({bannedCache'[i] : i \in 1..Len(bannedCache')}
                            \ {bannedCache[i] : i \in 1..Len(bannedCache)})
                  <= 1]_vars

\* a record created with the violations of a ban entry and checked three
\* times, at least twice over the limit
C29_Witness ==
    /\ last.op = "check"
    /\ CacheIndex(tokenCache, last.token) # 0
    /\ Len(ghost[last.token].hist) = 3
    /\ ghost[last.token].hist[1].vBefore > 0
    /\ CacheVal(tokenCache, last.token).count = 3
    /\ CacheVal(tokenCache, last.token).violations
          >= ghost[last.token].hist[1].vBefore + 2

\* C30: in every Decision check returns, remaining is at least 0; a Decision
\* with isBanned has isRateLimited and a banExpiresIn above 0; a Decision
\* without isBanned has no banExpiresIn; and the reason is absent exactly
\* when isRateLimited is false.
C30_DecisionConsistent ==
    last.op = "check"
    => LET ret == last.ret IN
       /\ ret.remaining >= 0
       /\ ret.isBanned => (ret.isRateLimited /\ ret.banExpiresIn > 0)
       /\ ~ret.isBanned => ret.banExpiresIn = NoNumber
       /\ (ret.reason = NoReason) <=> ~ret.isRateLimited

\* a check refused because of a ban still running, with the time left
C30_Witness ==
    /\ last.op = "check"
    /\ last.ret.reason = "ip_banned"
    /\ last.ret.isBanned
    /\ last.ret.isRateLimited
    /\ last.ret.banExpiresIn > 0
    /\ last.ret.remaining = 0

\* the ban entry a store holds for a token, None if it holds none
BanEntryOf(bc, token) ==
    IF CacheIndex(bc, token) = 0 THEN None
    ELSE Some(bc[CacheIndex(bc, token)])

\* C31: a check of a token whose ban entry has until > now is answered
\* 'ip_banned' whatever the client store holds for the token: a record, an
\* expired record or nothing; and a check, which is the one operation that
\* drops expired records and evicts records, leaves the ban entry of every
\* other token as it was (same until, violations and age), also when it
\* removes that token's record, and changes the ban entry of its own token
\* only by writing a violation ban.  ban, unban, getStats and the passing of
\* time leave the client store as it is.
C31_BanOutlivesRecord ==
    [][/\ (ncalls' = ncalls + 1 /\ last'.stage # "global")
          => LET token == last'.token
                 held == BanEntryOf(bannedCache, token)
             IN  /\ (held # None /\ held[1].v.until > now)
                       => last'.ret.reason = "ip_banned"
                 /\ \A other \in env.tokens \ {token} :
                       BanEntryOf(bannedCache', other)
                         = BanEntryOf(bannedCache, other)
                 /\ BanEntryOf(bannedCache', token) # held
                       => \/ last'.ret.reason = "violation_ban"
                          \/ held # None /\ held[1].v.until <= now
       /\ ncalls' = ncalls => tokenCache' = tokenCache]_vars

\* a client store with every stored score replaced by score
Rescored(tc, score) ==
    [i \in 1..Len(tc) |-> [tc[i] EXCEPT !.v.suspicionScore = score]]

\* the subnet tallies a second run may hold when the first holds sp: none,
\* and 10 or 50 violations counted at time t for the prefix of the token
OtherTallies(token, t) ==
    {<< >>} \cup {<<[k |-> SubnetOf(token), v |-> n, start |-> t]>> : n \in {10, 50}}

\* a Decision without its score
Unscored(ret) == [ret EXCEPT !.suspicionScore = 0]

\* C32: two limiters in states that differ only in the subnet tally and in
\* the scores stored on the records answer the same check with the same
\* isRateLimited, isBanned, limit, remaining, reason, currentUsage and
\* banExpiresIn, hold the same ban entries afterwards, and are again in
\* states that differ only in the tally and the stored scores.  ban and
\* unban read neither.  By induction two runs of one sequence of calls that
\* start with different tallies differ in the returned scores only.
C32_TallyOnlyScore ==
    \A limit \in env.limits, token \in env.tokens, fp \in env.fps :
        \A sp2 \in OtherTallies(token, now), score \in {0, 100} :
            LET one == CheckResult(limit, token, fp, globalState, tokenCache,
                                   bannedCache, suspiciousPatterns, now)
                two == CheckResult(limit, token, fp, globalState,
                                   Rescored(tokenCache, score), bannedCache,
                                   sp2, now)
            IN  /\ Unscored(one.out.ret) = Unscored(two.out.ret)
                /\ one.out.bc = two.out.bc
                /\ one.g = two.g
                /\ Rescored(one.out.tc, 0) = Rescored(two.out.tc, 0)

\* after a check, a state in which the next check of the token is answered
\* with a score 20 higher, and nothing else changed, by a limiter that has
\* counted 10 violations in the subnet
C32_Witness ==
    /\ last.op = "check"
    /\ last.stage = "client"
    /\ \E limit \in env.limits :
          LET one == CheckResult(limit, last.token, NoFingerprint, globalState,
                                 tokenCache, bannedCache, << >>, now)
              two == CheckResult(limit, last.token, NoFingerprint, globalState,
                                 tokenCache, bannedCache,
                                 <<[k |-> SubnetOf(last.token), v |-> 10,
                                    start |-> now]>>, now)
          IN  /\ two.out.ret.suspicionScore = one.out.ret.suspicionScore + 20
              /\ Unscored(one.out.ret) = Unscored(two.out.ret)
              /\ one.out.ret.reason = "rate_limited"

\* the tally a store holds for a prefix at time t: 0 when it holds none or
\* one older than 300000 ms
TallyOf(sp, prefix, t) ==
    IF CacheIndex(sp, prefix) = 0 THEN 0
    ELSE IF t - sp[CacheIndex(sp, prefix)].start > 300000 THEN 0
    ELSE sp[CacheIndex(sp, prefix)].v

Isolated(c, token) == SelectSeq(c, LAMBDA e : e.k = token)

\* C34: with the global limit disabled and the stores below capacity, a
\* check of one token leaves the record and the ban entry of every other
\* token as they were, and in the state it leads to every check is answered
\* with the same isRateLimited, isBanned, limit, remaining, reason,
\* currentUsage and banExpiresIn, and leaves the token with the same record
\* (but for its score) and the same ban entry, as by a limiter that holds
\* the record and the ban entry of that token and nothing else.  By
\* induction the answers to the calls of a token are those of the run
\* without the checks of the other tokens.
C34_NoCrossTalk ==
    [][/\ ncalls' = ncalls + 1
          => \A other \in env.tokens \ {last'.token} :
                /\ Isolated(tokenCache', other) = Isolated(tokenCache, other)
                /\ Isolated(bannedCache', other) = Isolated(bannedCache, other)
       /\ \A limit \in env.limits, token \in env.tokens, fp \in env.fps :
             LET one == CheckResult(limit, token, fp, globalState',
                                    tokenCache', bannedCache',
                                    suspiciousPatterns', now').out
                 two == CheckResult(limit, token, fp, globalState',
                                    Isolated(tokenCache', token),
                                    Isolated(bannedCache', token), << >>,
                                    now').out
             IN  /\ Unscored(one.ret) = Unscored(two.ret)
                 /\ Rescored(Isolated(one.tc, token), 0) = Rescored(two.tc, 0)
                 /\ Isolated(one.bc, token) = two.bc]_vars

\* a third check, the second of a client and rate-limited, after a check of
\* its neighbour in the subnet that was rate-limited too
C34_Witness ==
    /\ last.op = "check"
    /\ ncalls = 3
    /\ last.token = IPv4Token
    /\ last.ret.reason = "rate_limited"
    /\ CacheHas(tokenCache, IPv4Token)
    /\ CacheHas(tokenCache, NeighbourToken)
    /\ CacheVal(tokenCache, IPv4Token).count = 2
    /\ CacheVal(tokenCache, NeighbourToken).violations >= 1
    /\ TallyOf(suspiciousPatterns, SubnetOf(IPv4Token), now) >= 2

\* C35: the score a check computes (lines 199-211) is min(100, latency +
\* 15 * max(0, fingerprints - 5) + 25 * violations + 5 * max(0, recent - 10)
\* + regularity), where latency is 20, 10 or 0 (gap to the previous request
\* below 50, below 100, otherwise or no previous request), fingerprints is
\* the number of distinct fingerprints on the record once this call's
\* fingerprint is added, violations those of the record before the call,
\* recent the number of timestamps, this call's included, less than 1000 ms
\* before now, and regularity the 30 or 0 of the timestamp intervals; the
\* fingerprint of the call is added when fingerprinting is enabled and one
\* was passed, and the set is left alone otherwise.
C35_ScoreSum ==
    last.op = "score"
    => LET before == last.record
           after == last.scored
           gap == now - before.lastRequestTime
           latency == IF before.lastRequestTime = 0 THEN 0
                      ELSE IF gap < 50 THEN 20
                      ELSE IF gap < 100 THEN 10
                      ELSE 0
           prints == Cardinality(after.fingerprints)
           recent == Cardinality({i \in 1..Len(after.timestamps) :
                                     now - after.timestamps[i] < 1000})
       IN  /\ after.fingerprints
                 = IF opt.enableFingerprinting /\ last.fingerprint # ""
                   THEN before.fingerprints \cup {last.fingerprint}
                   ELSE before.fingerprints
           /\ after.timestamps = Append(before.timestamps, now)
           /\ after.violations = before.violations
           /\ after.suspicionScore
                 = Min(100, latency + 15 * Max(0, prints - 5)
                            + 25 * before.violations
                            + 5 * Max(0, recent - 10)
                            + RegularityScore(after))

\* a check with an eighth fingerprint, 60 ms after the previous one, of a
\* record with one violation and twelve recent requests at irregular
\* intervals: 10 + 45 + 25 + 15 = 95
C35_Witness ==
    /\ last.op = "score"
    /\ last.fingerprint = "f9"
    /\ Cardinality(last.scored.fingerprints) = 8
    /\ Len(last.scored.timestamps) = 13
    /\ last.record.violations = 1
    /\ now - last.record.lastRequestTime = 60
    /\ RegularityScore(last.scored) = 0
    /\ last.scored.suspicionScore = 95

\* C36: the fingerprint set of a record is bounded by a fixed capacity,
\* sized to the threshold of the score (more than 5 distinct): whatever the
\* number of checks with distinct fingerprints, rate-limited ones included,
\* no record holds more than 6 fingerprints.
C36_FingerprintsBounded ==
    \A i \in 1..Len(tokenCache) :
        Cardinality(tokenCache[i].v.fingerprints) <= 6

=============================================================================
